---------------------------- MODULE Spec2Model ----------------------------
(***************************************************************************)
(* A model of the news collector (src/collector.py): the poll cycle that   *)
(* reads feeds, matches topics, fingerprints, de-duplicates against the    *)
(* articles table, enriches and stores.                                    *)
(*                                                                         *)
(* Text is a sequence of characters, each a one-character string; the      *)
(* characters that have no printable form are named: "NBSP" is U+00A0 and  *)
(* "ZWSP" stands for the zero-width characters U+200B/C/D and U+FEFF.      *)
(* None is Python's None.                                                  *)
(***************************************************************************)
EXTENDS Integers, Sequences, FiniteSets, TLC

None == <<"None">>

(* ------------------------------ bounds --------------------------------- *)
\* Number of feeds polled per cycle (FEEDS lists 11; the loop treats all alike).
NumFeeds == 2
\* Greatest number of entries one feed serves.
MaxEntries == 2

(* --------------------------- characters -------------------------------- *)
UpperCase == <<"A","B","C","D","E","F","G","H","I","J","K","L","M",
               "N","O","P","Q","R","S","T","U","V","W","X","Y","Z">>
LowerCase == <<"a","b","c","d","e","f","g","h","i","j","k","l","m",
               "n","o","p","q","r","s","t","u","v","w","x","y","z">>
Digits == {"0","1","2","3","4","5","6","7","8","9"}

\* what Python's str.isspace and the regular expression \s accept
Whitespace == {" ", "\t", "\n", "\r", "NBSP"}
\* the class [\u200b\u200c\u200d\uFEFF]
ZeroWidth == {"ZWSP"}
\* the regular expression \w
WordChars == {UpperCase[i] : i \in 1..26} \cup {LowerCase[i] : i \in 1..26}
                 \cup Digits \cup {"_"}

\* str.lower on one character
LowerChar(c) ==
    IF \E i \in 1..26 : UpperCase[i] = c
    THEN LowerCase[CHOOSE i \in 1..26 : UpperCase[i] = c]
    ELSE c

\* str.lower
Lower(s) == [i \in 1..Len(s) |-> LowerChar(s[i])]

\* s without the characters of drop (re.sub of a one-character class by "")
DropChars(s, drop) == SelectSeq(s, LAMBDA c : c \notin drop)

\* str.lstrip
LStrip(s) ==
    IF \A i \in 1..Len(s) : s[i] \in Whitespace THEN <<>>
    ELSE LET i == CHOOSE k \in 1..Len(s) :
                      s[k] \notin Whitespace /\ \A m \in 1..(k - 1) : s[m] \in Whitespace
         IN  SubSeq(s, i, Len(s))

\* str.rstrip
RStrip(s) ==
    IF \A i \in 1..Len(s) : s[i] \in Whitespace THEN <<>>
    ELSE LET i == CHOOSE k \in 1..Len(s) :
                      s[k] \notin Whitespace /\ \A m \in (k + 1)..Len(s) : s[m] \in Whitespace
         IN  SubSeq(s, 1, i)

\* str.strip
Strip(s) == RStrip(LStrip(s))

\* re.sub(r"\s+", " ", s): every run of whitespace becomes one space
RECURSIVE CollapseWhitespace(_)
CollapseWhitespace(s) ==
    IF \A i \in 1..Len(s) : s[i] \notin Whitespace THEN s
    ELSE LET i == CHOOSE k \in 1..Len(s) :
                      s[k] \in Whitespace /\ \A m \in 1..(k - 1) : s[m] \notin Whitespace
         IN  SubSeq(s, 1, i - 1) \o <<" ">>
                 \o CollapseWhitespace(LStrip(SubSeq(s, i, Len(s))))

\* pat is in s at position i
MatchAt(s, pat, i) == i + Len(pat) - 1 <= Len(s) /\ SubSeq(s, i, i + Len(pat) - 1) = pat

\* pat in s
Contains(s, pat) == \E i \in 1..(Len(s) - Len(pat) + 1) : MatchAt(s, pat, i)

\* re.sub of the literal pat by rep: leftmost, non-overlapping
RECURSIVE ReplaceAll(_, _, _)
ReplaceAll(s, pat, rep) ==
    IF ~Contains(s, pat) THEN s
    ELSE LET i == CHOOSE k \in 1..Len(s) :
                      MatchAt(s, pat, k) /\ \A m \in 1..(k - 1) : ~MatchAt(s, pat, m)
         IN  SubSeq(s, 1, i - 1) \o rep
                 \o ReplaceAll(SubSeq(s, i + Len(pat), Len(s)), pat, rep)

\* a tag starts at i: "<", one or more characters other than ">", then ">"
TagAt(s, i) ==
    /\ s[i] = "<"
    /\ i + 2 <= Len(s)
    /\ s[i + 1] # ">"
    /\ \E j \in (i + 2)..Len(s) : s[j] = ">"

\* re.sub(r"<[^>]+>", "", s)
RECURSIVE StripTags(_)
StripTags(s) ==
    IF ~\E i \in 1..Len(s) : TagAt(s, i) THEN s
    ELSE LET i == CHOOSE k \in 1..Len(s) : TagAt(s, k) /\ \A m \in 1..(k - 1) : ~TagAt(s, m)
             j == CHOOSE k \in (i + 2)..Len(s) :
                      s[k] = ">" /\ \A m \in (i + 2)..(k - 1) : s[m] # ">"
         IN  SubSeq(s, 1, i - 1) \o StripTags(SubSeq(s, j + 1, Len(s)))

\* [c if c not in from else " "] (re.sub of a one-character class by " ")
BlankChars(s, from) == [i \in 1..Len(s) |-> IF s[i] \in from THEN " " ELSE s[i]]

clean_text(text) ==
    IF text = <<>> THEN <<>>
    ELSE LET t1 == StripTags(text)
             t2 == ReplaceAll(t1, <<"&","n","b","s","p",";">>, <<" ">>)
             t3 == ReplaceAll(t2, <<"&","a","m","p",";">>, <<"&">>)
             t4 == ReplaceAll(t3, <<"&","l","t",";">>, <<"<">>)
             t5 == ReplaceAll(t4, <<"&","g","t",";">>, <<">">>)
             t6 == ReplaceAll(t5, <<"&","q","u","o","t",";">>, <<"\"">>)
             t7 == BlankChars(t6, {"NBSP"} \cup ZeroWidth)
         IN  Strip(CollapseWhitespace(t7))

normalize_text(text) ==
    LET lowered == Lower(clean_text(text))
    IN  SelectSeq(lowered, LAMBDA c : c \in WordChars \cup Whitespace)

(* ----------------------------- fingerprint ------------------------------ *)
\* hashlib.sha256(...).hexdigest(): collision-resistant, modelled as injective
sha256_hex(s) == <<"sha256", s>>

\* normalize_for_fingerprint without the .lower() of line 100
normalize_for_fingerprint_CaseSensitive(text) ==
    CollapseWhitespace(DropChars(Strip(text), ZeroWidth))

normalize_for_fingerprint(text) ==
    LET t1 == Lower(Strip(text))
        t2 == DropChars(t1, ZeroWidth)
    IN  CollapseWhitespace(t2)

make_fingerprint(title, topic) ==
    sha256_hex(normalize_for_fingerprint(title) \o <<"|">> \o normalize_for_fingerprint(topic))

(* ------------------------------- config --------------------------------- *)
TOPICS ==
    << <<"e","l","e","c","t","i","o","n">>,
       <<"t","r","u","m","p">>,
       <<"b","i","t","c","o","i","n">>,
       <<"r","u","s","s","i","a">>,
       <<"p","u","t","i","n">>,
       <<"i","s","r","a","e","l">>,
       <<"s","a","u","d","i">>,
       <<"t","u","l","s","i">>,
       <<"i","n","t","e","l","l","i","g","e","n","c","e"," ","c","o","m","m","u","n","i","t","y">>,
       <<"f","b","i">>,
       <<"e","x","e","c","u","t","i","v","e"," ","o","r","d","e","r">>,
       <<"c","h","i","n","a">>,
       <<"d","n","i">>,
       <<"m","a","d","u","r","o">>,
       <<"l","a","w","s","u","i","t">>,
       <<"i","n","j","u","n","c","t","i","o","n">>,
       <<"c","o","u","r","t">>,
       <<"v","o","t","e","r">>,
       <<"r","i","c","o">>,
       <<"c","o","n","s","p","i","r","a","c","y">>,
       <<"c","o","r","r","u","p","t","i","o","n">>,
       <<"e","l","e","c","t","i","o","n"," ","f","r","a","u","d">>,
       <<"c","o","n","s","p","i","r","a","c","y"," ","t","h","e","o","r","y">>,
       <<"q","a","n","o","n">>,
       <<"u","f","o">>,
       <<"n","u","c","l","e","a","r">>,
       <<"m","a","h","a">>,
       <<"n","e","t","a","n","y","a","h","u">>,
       <<"e","r","d","o","g","a","n">>,
       <<"l","a","v","r","o","v">>,
       <<"i","r","a","n">>,
       <<"b","o","a","r","d"," ","o","f"," ","p","e","a","c","e">>,
       <<"c","o","n","g","o">>,
       <<"s","a","h","e","l">> >>

AI_SUMMARY_TOPICS ==
    << <<"e","l","e","c","t","i","o","n">>,
       <<"t","r","u","m","p">>,
       <<"r","u","s","s","i","a">>,
       <<"c","h","i","n","a">>,
       <<"i","s","r","a","e","l">>,
       <<"i","r","a","n">>,
       <<"b","i","t","c","o","i","n">>,
       <<"n","u","c","l","e","a","r">> >>

\* AI_SUMMARY_TOPICS as the set process_feed builds: {t.lower() for t in AI_SUMMARY_TOPICS}
ai_topics_lower == {Lower(AI_SUMMARY_TOPICS[i]) : i \in 1..Len(AI_SUMMARY_TOPICS)}

(* ------------------------------ text helpers ---------------------------- *)
\* s[:n]
Prefix(s, n) == SubSeq(s, 1, IF Len(s) < n THEN Len(s) ELSE n)

\* re.split(r"(?<=[.!?])\s+", s)[0]: s up to the first whitespace run that follows . ! or ?
FirstSentence(s) ==
    IF \E i \in 2..Len(s) : s[i] \in Whitespace /\ s[i - 1] \in {".", "!", "?"}
    THEN LET i == CHOOSE k \in 2..Len(s) :
                      /\ s[k] \in Whitespace /\ s[k - 1] \in {".", "!", "?"}
                      /\ \A m \in 2..(k - 1) : ~(s[m] \in Whitespace /\ s[m - 1] \in {".", "!", "?"})
         IN  SubSeq(s, 1, i - 1)
    ELSE s

\* the length from which a feed snippet is used for the fallback summary
MinSnippetLen == 80
\* the cut of the fallback sentence
MaxSentenceLen == 220

fallback_summary_Uncut(title, desc, topic) ==
    LET title_clean == clean_text(title)
        desc_clean == clean_text(desc)
    IN  IF Len(desc_clean) >= MinSnippetLen
        THEN Strip(FirstSentence(desc_clean))
                 \o <<"\n", "\n", "Key: Topic=">> \o topic
        ELSE <<"This headline matches '">> \o topic
                 \o <<"', but the feed snippet is thin.", "\n", "Headline: ">> \o title_clean
                 \o <<"\n", "Key: Topic=">> \o topic

fallback_summary(title, desc, topic) ==
    LET title_clean == clean_text(title)
        desc_clean == clean_text(desc)
    IN  IF Len(desc_clean) >= MinSnippetLen
        THEN Strip(Prefix(FirstSentence(desc_clean), MaxSentenceLen))
                 \o <<"\n", "\n", "Key: Topic=">> \o topic
        ELSE <<"This headline matches '">> \o topic
                 \o <<"', but the feed snippet is thin.", "\n", "Headline: ">> \o title_clean
                 \o <<"\n", "Key: Topic=">> \o topic

(* --------------------------- the feeds' entries ------------------------- *)
RECURSIVE Repeat(_, _)
Repeat(s, n) == IF n = 0 THEN <<>> ELSE s \o Repeat(s, n - 1)

\* a feed snippet of 87 characters after cleaning: eleven sentences
LongSnippet == Repeat(<<"I","t"," ","w","o","n","."," "," ">>, 11)

\* an eligible topic ("trump"), no snippet
EntryTrump ==
    [title |-> <<"T","r","u","m","p"," ","w","i","n","s">>,
     link |-> <<"a">>, description |-> <<>>]
\* the same story from another feed: other case and spacing, other link, a long snippet
EntryTrumpAgain ==
    [title |-> <<" ","T","R","U","M","P"," "," ","w","i","n","s"," ">>,
     link |-> <<"b">>, description |-> LongSnippet]
\* another story (topic "fbi", not eligible) under the link of EntryTrump
EntryFbi ==
    [title |-> <<"F","B","I"," ","r","a","i","d">>,
     link |-> <<"a">>, description |-> <<>>]
\* no topic key in title or snippet
EntryCat ==
    [title |-> <<"C","a","t"," ","s","h","o","w">>,
     link |-> <<"c">>, description |-> <<>>]

\* two keys in the title: "ufo" comes first in the title, "lawsuit" first in TOPICS
EntryUfo ==
    [title |-> <<"U","F","O"," ","l","a","w","s","u","i","t">>,
     link |-> <<"d">>, description |-> <<>>]
\* the story of EntryTrump from a feed whose snippet has the key "election"
EntryTrumpElection ==
    [title |-> <<"T","r","u","m","p"," ","w","i","n","s">>,
     link |-> <<"e">>, description |-> <<"E","l","e","c","t","i","o","n">>]

\* a title of whitespace only (or no title: entry.get gives None, "or" gives ""),
\* with a key in the snippet
EntryNoTitle ==
    [title |-> <<" ">>,
     link |-> <<"f">>, description |-> <<"T","r","u","m","p">>]
\* a link of whitespace only (or no link), with a key in the title
EntryNoLink ==
    [title |-> <<"T","r","u","m","p"," ","w","i","n","s">>,
     link |-> <<" ", " ">>, description |-> <<>>]

\* another story with the key "trump", under a link of its own
EntryTrumpLoses ==
    [title |-> <<"T","r","u","m","p"," ","l","o","s","e","s">>,
     link |-> <<"g">>, description |-> <<>>]

Universe == {EntryTrump, EntryTrumpAgain, EntryFbi, EntryCat}
\* the entries that differ in the keys they match
TopicUniverse == {EntryTrump, EntryTrumpElection, EntryUfo, EntryCat}
\* the entries that differ in having a title and a link
BlankUniverse == {EntryTrump, EntryNoTitle, EntryNoLink, EntryCat}
\* the entries a collector stores while the app reads
ReadUniverse == {EntryTrump, EntryTrumpLoses, EntryUfo}
\* every entry of the model
AllEntries == Universe \cup TopicUniverse \cup BlankUniverse \cup ReadUniverse

\* every sequence over S of length at most n
RECURSIVE SeqsUpTo(_, _)
SeqsUpTo(S, n) ==
    IF n = 0 THEN {<<>>}
    ELSE LET shorter == SeqsUpTo(S, n - 1)
         IN  shorter \cup {Append(s, x) : s \in {t \in shorter : Len(t) = n - 1}, x \in S}

Feeds == 1..NumFeeds

\* what a feed can serve at a poll: any entries, in any order
FeedContents == SeqsUpTo(Universe, MaxEntries)
\* one entry at most, for the fair runs
SmallFeedContents == {<<>>, <<EntryTrump>>, <<EntryTrumpAgain>>, <<EntryFbi>>, <<EntryCat>>}
\* the same for the runs with two collectors: the entries that meet in the store
RacingFeedContents == {<<>>, <<EntryTrump>>, <<EntryTrumpAgain>>, <<EntryFbi>>}
\* feeds of one entry, for the matching of topics
TopicFeedContents == {<<>>} \cup {<<e>> : e \in TopicUniverse}
\* feeds of one entry, with entries that lack a title or a link
BlankFeedContents == {<<>>} \cup {<<e>> : e \in BlankUniverse}

\* the page text requests.get returns for a link (at least 400 characters in the code)
ArticleText == <<"page text">>
\* what chat.sample() can answer: no content, blank, text with markup and spaces around
XaiResponses ==
    { <<>>, <<" ">>, <<" ","a","<","b","r",">","b","\n">> }

(* ------------------ process_feed: the locals of one entry ---------------- *)
\* the loop of lines 445-450 without its break: the last key that matches
MatchTopic_LastKey(norm_title, norm_desc) ==
    LET hits == {i \in 1..Len(TOPICS) :
                    Contains(norm_title, Lower(TOPICS[i]))
                        \/ Contains(norm_desc, Lower(TOPICS[i]))}
    IN  IF hits = {} THEN None
        ELSE TOPICS[CHOOSE i \in hits : \A j \in hits : i >= j]

\* lines 445-450: the first key of TOPICS that is in the normalized title or snippet, or None
MatchTopic(norm_title, norm_desc) ==
    LET hits == {i \in 1..Len(TOPICS) :
                    Contains(norm_title, Lower(TOPICS[i]))
                        \/ Contains(norm_desc, Lower(TOPICS[i]))}
    IN  IF hits = {} THEN None
        ELSE TOPICS[CHOOSE i \in hits : \A j \in hits : i <= j]

\* lines 434-455: title, link, desc, matched_topic and fp of an entry
\* (fp is computed only for an entry with a title, a link and a topic)
Candidate(entry) ==
    [title |-> Strip(entry.title),
     link |-> Strip(entry.link),
     desc |-> Strip(entry.description),
     matched_topic |-> MatchTopic(normalize_text(Strip(entry.title)),
                                  normalize_text(Strip(entry.description))),
     fp |-> IF MatchTopic(normalize_text(Strip(entry.title)),
                          normalize_text(Strip(entry.description))) = None
            THEN None
            ELSE make_fingerprint(Strip(entry.title),
                     MatchTopic(normalize_text(Strip(entry.title)),
                                normalize_text(Strip(entry.description))))]

\* Candidate, computed once per entry
CandidateOf == [e \in AllEntries |-> Candidate(e)]

\* lines 475-476: the fallback summary of an entry, computed once per entry
FallbackOf ==
    [e \in AllEntries |->
        fallback_summary(CandidateOf[e].title, CandidateOf[e].desc,
                         CandidateOf[e].matched_topic)]

\* process_feed without the "if not title or not link: continue" of lines 439-440
Skipped_TitleLinkNotRequired(c) == c.matched_topic = None

\* process_feed without the "if not matched_topic: continue" of lines 452-453
Skipped_TopicNotRequired(c) == c.title = <<>> \/ c.link = <<>>

\* lines 439-440 and 452-453: the entry is passed over
Skipped(c) == c.title = <<>> \/ c.link = <<>> \/ c.matched_topic = None

\* line 466: the topic gets a summary
Eligible(c) == Lower(c.matched_topic) \in ai_topics_lower

\* process_feed's locals before an entry is read
NoCandidate ==
    [title |-> <<>>, link |-> <<>>, desc |-> <<>>, matched_topic |-> None, fp |-> <<>>]

(* ------------------------ app.py: the topic labels ----------------------- *)
\* str.upper on one character
UpperChar(c) ==
    IF \E i \in 1..26 : LowerCase[i] = c
    THEN UpperCase[CHOOSE i \in 1..26 : LowerCase[i] = c]
    ELSE c

\* a cased character
IsLetter(c) == \E i \in 1..26 : LowerCase[i] = c \/ UpperCase[i] = c

\* str.isupper: a cased character, and no lowercase one
IsUpper(s) ==
    /\ \E i \in 1..Len(s) : IsLetter(s[i])
    /\ \A i \in 1..Len(s) : s[i] = UpperChar(s[i])

\* str.title: a letter after a character that is no letter is uppercased, any other lowercased
Title(s) ==
    [i \in 1..Len(s) |->
        IF i = 1 \/ ~IsLetter(s[i - 1]) THEN UpperChar(s[i]) ELSE LowerChar(s[i])]

\* CANON_TOPIC as pairs <<key, label>>
CANON_TOPIC ==
    { <<<<"f","b","i">>,
         <<"F","B","I">>>>,
       <<<<"u","f","o">>,
         <<"U","F","O">>>>,
       <<<<"q","a","n","o","n">>,
         <<"Q","A","n","o","n">>>>,
       <<<<"r","i","c","o">>,
         <<"R","I","C","O">>>>,
       <<<<"e","x","e","c","u","t","i","v","e"," ","o","r","d","e","r">>,
         <<"E","x","e","c","u","t","i","v","e"," ","O","r","d","e","r">>>>,
       <<<<"c","o","n","s","p","i","r","a","c","y"," ","t","h","e","o","r","y">>,
         <<"C","o","n","s","p","i","r","a","c","y"," ","T","h","e","o","r","y">>>>,
       <<<<"b","o","a","r","d"," ","o","f"," ","p","e","a","c","e">>,
         <<"B","o","a","r","d"," ","o","f"," ","P","e","a","c","e">>>>,
       <<<<"s","a","h","e","l">>,
         <<"S","a","h","e","l">>>>,
       <<<<"c","o","n","g","o">>,
         <<"C","o","n","g","o">>>>,
       <<<<"m","a","h","a">>,
         <<"M","A","H","A">>>>,
       <<<<"d","n","i">>,
         <<"D","N","I">>>> }

normalize_topic_label(topic) ==
    LET t == Strip(topic)
    IN  IF t = <<>> THEN <<>>
        ELSE IF \E kv \in CANON_TOPIC : kv[1] = Lower(t)
             THEN (CHOOSE kv \in CANON_TOPIC : kv[1] = Lower(t))[2]
        ELSE IF IsUpper(t) /\ Len(t) <= 8 THEN t
        ELSE Title(t)

(* -------------------------------- state --------------------------------- *)
VARIABLES
    backend,      \* "postgres" when DATABASE_URL is set, else "sqlite"
    xaiConfigured,\* XAI_API_KEY is set and xai_sdk was imported
    served,       \* which contents the feeds can serve at a poll (see Served)
    rows,         \* the articles table
    nextId,       \* the next id of the table; also its clock (added_at)
    fpIndex,      \* the unique index articles_fingerprint_uniq exists
    pc,           \* where each collector process is (its domain: the collectors)
    feedIdx,      \* main: the feed of the for loop
    entries,      \* process_feed: feed.entries
    entryIdx,     \* process_feed: the entry of the for loop
    cand,         \* process_feed: title, link, desc, matched_topic, fp
    isNew,        \* process_feed: <<b>> once is_new_article has returned b, else <<>>
    article_text, \* process_feed: what fetch_article_text returned
    summary,      \* process_feed: the summary to store
    xaiClient,    \* the global _xai_client: NoClient (None) or "client"
    err,          \* main: the exception its handler caught
    handled,      \* history: the entries whose iteration of process_feed's loop ended
    call,         \* a function called on its own: its name, arguments and result
    now,          \* app.py: time.time(), in seconds
    cache         \* app.py: the global _cache, key -> entry (expiry and value)

vars == <<backend, xaiConfigured, served, rows, nextId, fpIndex, pc, feedIdx,
          entries, entryIdx, cand, isNew, article_text, summary, xaiClient, err,
          handled, call, now, cache>>

dbVars == <<rows, nextId, fpIndex>>
appVars == <<now, cache>>

envVars == <<backend, xaiConfigured, served, call, now, cache>>

\* the collector processes that run
Collectors == DOMAIN pc

\* line 361: _xai_client before the first call of xai_summary
NoClient == "NoClient"

\* no exception is being handled
NoError == "NoError"

\* line 426: what feedparser.parse can return as feed.entries
Served ==
    IF served = "FeedContents" THEN FeedContents
    ELSE IF served = "RacingFeedContents" THEN RacingFeedContents
    ELSE IF served = "TopicFeedContents" THEN TopicFeedContents
    ELSE IF served = "BlankFeedContents" THEN BlankFeedContents
    ELSE SmallFeedContents

\* no function is called on its own
NoCall == [fn |-> "none", args |-> <<>>, result |-> <<>>]

using_postgres == backend = "postgres"

(* ------------------------------ the store ------------------------------- *)
\* dedupe_and_lock, Postgres: the fingerprint the UPDATE computes for a row
pg_backfill_fingerprint(title, topic) ==
    sha256_hex(Lower(CollapseWhitespace(title)) \o <<"|">> \o Lower(topic))

\* dedupe_and_lock with an UPDATE that has no WHERE fingerprint IS NULL
Backfilled_EveryRow(rs) ==
    {[r EXCEPT !.fingerprint =
         IF using_postgres THEN pg_backfill_fingerprint(r.title, r.topic) ELSE <<>>]
      : r \in rs}

\* dedupe_and_lock: the rows after the backfill of the NULL fingerprints
Backfilled(rs) ==
    {IF r.fingerprint # None THEN r
     ELSE [r EXCEPT !.fingerprint =
              IF using_postgres THEN pg_backfill_fingerprint(r.title, r.topic) ELSE <<>>]
      : r \in rs}

\* dedupe_and_lock with ORDER BY id DESC alone
Newer_ByIdOnly(a, b) == a.id > b.id

\* added_at is <<t>>, or <<>> for NULL
\* ORDER BY added_at DESC NULLS LAST, id DESC: a comes before b
Newer(a, b) ==
    \/ a.added_at # <<>> /\ b.added_at = <<>>
    \/ a.added_at # <<>> /\ b.added_at # <<>> /\ a.added_at[1] > b.added_at[1]
    \/ a.added_at = b.added_at /\ a.id > b.id

\* dedupe_and_lock, Postgres: the rows with rn = 1
Deduped(rs) ==
    {r \in rs : r.fingerprint = None
                  \/ ~\E o \in rs : o.fingerprint = r.fingerprint /\ Newer(o, r)}

\* is_new_article without its second SELECT: the link alone decides
is_new_article_LinkOnly(link, fingerprint) == ~\E r \in rows : r.link = link

\* is_new_article without its first SELECT: the fingerprint alone decides
is_new_article_FingerprintOnly(link, fingerprint) ==
    ~\E r \in rows : r.fingerprint = fingerprint

is_new_article(link, fingerprint) ==
    IF \E r \in rows : r.link = link THEN FALSE
    ELSE ~\E r \in rows : r.fingerprint = fingerprint

\* save_article with a plain INSERT on a table whose link column is not UNIQUE
LinkConflict_NotUnique(link) == FALSE

\* save_article: the INSERT meets a row with the link (ON CONFLICT (link) / OR IGNORE)
LinkConflict(link) == \E r \in rows : r.link = link

\* save_article: the INSERT violates articles_fingerprint_uniq, which no clause handles
FingerprintViolation(link, fingerprint) ==
    /\ using_postgres /\ fpIndex
    /\ ~LinkConflict(link)
    /\ \E r \in rows : r.fingerprint = fingerprint

\* save_article as an INSERT of the identity alone, the topic, the summary and the
\* fingerprint left to a later UPDATE
NewRow_IdentityOnly(c, s) ==
    [id |-> nextId, title |-> c.title, link |-> c.link, description |-> c.desc,
     topic |-> None, summary |-> None, added_at |-> <<nextId>>,
     fingerprint |-> None]

\* save_article: the row of the INSERT
NewRow(c, s) ==
    [id |-> nextId, title |-> c.title, link |-> c.link, description |-> c.desc,
     topic |-> c.matched_topic, summary |-> s, added_at |-> <<nextId>>,
     fingerprint |-> c.fp]

(* ------------------------------ main loop ------------------------------- *)
\* main without its "except Exception": the exception leaves main
MainExcept_Uncaught == "crashed"

\* main, lines 514-516: an exception of the cycle is caught, then sleep(60)
MainExcept == "error_sleep"

\* process_feed without the "continue" of line 460
AfterCheck_NoContinue(is_new, eligible) == IF eligible THEN "fetch_text" ELSE "save"

\* process_feed without the test of line 466: every new candidate is enriched
AfterCheck_AlwaysEnrich(is_new, eligible) ==
    IF ~is_new THEN "already_seen" ELSE "fetch_text"

\* lines 458-466: after the dedup check: continue, enrich, or save without summary
AfterCheck(is_new, eligible) ==
    IF ~is_new THEN "already_seen"
    ELSE IF eligible THEN "fetch_text" ELSE "save"

\* the locals of one entry go: the next iteration assigns each before it reads it
ClearEntry(p) ==
    /\ cand' = [cand EXCEPT ![p] = NoCandidate]
    /\ isNew' = [isNew EXCEPT ![p] = <<>>]
    /\ article_text' = [article_text EXCEPT ![p] = None]
    /\ summary' = [summary EXCEPT ![p] = None]

\* process_feed is left: its locals go
ClearFeed(p) ==
    /\ entries' = [entries EXCEPT ![p] = <<>>]
    /\ entryIdx' = [entryIdx EXCEPT ![p] = 1]
    /\ ClearEntry(p)

\* continue, or the end of the loop body: the next entry of the feed
NextEntry(p) ==
    /\ pc' = [pc EXCEPT ![p] = "entry"]
    /\ entryIdx' = [entryIdx EXCEPT ![p] = entryIdx[p] + 1]
    /\ handled' = handled \cup {entries[p][entryIdx[p]]}
    /\ ClearEntry(p)
    /\ UNCHANGED <<feedIdx, entries, err>>

\* an exception e leaves process_feed and the for loop of main
Raise(p, e) ==
    /\ pc' = [pc EXCEPT ![p] = MainExcept]
    /\ err' = [err EXCEPT ![p] = e]
    /\ ClearFeed(p)
    /\ UNCHANGED <<feedIdx, handled>>

\* lines 256-261: init_db, then dedupe_and_lock in its try
Startup(p) ==
    /\ pc[p] = "startup"
    /\ \/ /\ ~using_postgres
          /\ rows' = Backfilled(rows)
          /\ fpIndex' = fpIndex
       \/ /\ using_postgres
          /\ rows' = Deduped(Backfilled(rows))
          /\ fpIndex' = TRUE
       \/ \* "[WARN] dedupe_and_lock failed (continuing)": the transaction is rolled back
          /\ using_postgres
          /\ UNCHANGED <<rows, fpIndex>>
    /\ pc' = [pc EXCEPT ![p] = "parse"]
    /\ UNCHANGED <<envVars, nextId, feedIdx, entries, entryIdx, cand, isNew,
                   article_text, summary, xaiClient, err, handled>>

\* line 426: feedparser.parse(url) returns, with the entries the feed serves now or
\* (unreachable, malformed) with none; lines 427-429: "No entries found", return
ParseReturns(p) ==
    /\ pc[p] = "parse"
    /\ \E content \in Served :
          /\ entries' = [entries EXCEPT ![p] = content]
          /\ pc' = [pc EXCEPT ![p] = IF content = <<>> THEN "no_entries" ELSE "entry"]
    /\ UNCHANGED <<envVars, dbVars, feedIdx, entryIdx, cand, isNew, article_text,
                   summary, xaiClient, err, handled>>

\* process_feed returned: the next feed, or "Cycle complete" and sleep
FeedDone(p) ==
    /\ ClearFeed(p)
    /\ IF feedIdx[p] < NumFeeds
       THEN /\ pc' = [pc EXCEPT ![p] = "parse"]
            /\ feedIdx' = [feedIdx EXCEPT ![p] = feedIdx[p] + 1]
       ELSE /\ pc' = [pc EXCEPT ![p] = "sleep"]
            /\ feedIdx' = feedIdx
    /\ UNCHANGED <<err, handled>>

\* lines 427-429: "No entries found", return
NoEntries(p) ==
    /\ pc[p] = "no_entries"
    /\ FeedDone(p)
    /\ UNCHANGED <<envVars, dbVars, xaiClient>>

\* lines 433-455: the head of the loop over feed.entries and the locals of the entry
BeginEntry(p) ==
    /\ pc[p] = "entry"
    /\ IF entryIdx[p] > Len(entries[p])
       THEN FeedDone(p)
       ELSE /\ cand' = [cand EXCEPT ![p] = CandidateOf[entries[p][entryIdx[p]]]]
            /\ IF Skipped(cand'[p])
               THEN /\ entryIdx' = [entryIdx EXCEPT ![p] = entryIdx[p] + 1]
                    /\ handled' = handled \cup {entries[p][entryIdx[p]]}
                    /\ pc' = pc
               ELSE /\ pc' = [pc EXCEPT ![p] = "check"]
                    /\ UNCHANGED <<entryIdx, handled>>
            /\ UNCHANGED <<feedIdx, entries, isNew, article_text, summary, err>>
    /\ UNCHANGED <<envVars, dbVars, xaiClient>>

\* lines 458-466: the dedup check
IsNewArticle(p) ==
    /\ pc[p] = "check"
    /\ \/ \* the store cannot be reached: is_new_article raises
          Raise(p, "OperationalError")
       \/ /\ isNew' = [isNew EXCEPT ![p] = <<is_new_article(cand[p].link, cand[p].fp)>>]
          /\ pc' = [pc EXCEPT ![p] = AfterCheck(isNew'[p][1], Eligible(cand[p]))]
          /\ UNCHANGED <<feedIdx, entries, entryIdx, cand, article_text, summary, err,
                         handled>>
    /\ UNCHANGED <<envVars, dbVars, xaiClient>>

\* lines 459-460: "Already seen", continue
AlreadySeen(p) ==
    /\ pc[p] = "already_seen"
    /\ NextEntry(p)
    /\ UNCHANGED <<envVars, dbVars, xaiClient>>

\* line 467: fetch_article_text returns the page text, or "" on any failure or timeout
FetchArticleText(p) ==
    /\ pc[p] = "fetch_text"
    /\ \E t \in {<<>>, ArticleText} : article_text' = [article_text EXCEPT ![p] = t]
    /\ pc' = [pc EXCEPT ![p] = "xai"]
    /\ UNCHANGED <<envVars, dbVars, feedIdx, entries, entryIdx, cand, isNew, summary,
                   xaiClient, err, handled>>

\* lines 416-417: the answer stripped, None when nothing is left
XaiText(content) == IF Strip(content) = <<>> THEN None ELSE Strip(content)

\* lines 468-476: xai_summary, then the fallback when it gave None
XaiSummary(p) ==
    /\ pc[p] = "xai"
    /\ \/ \* line 370: Client(...) raises, outside the try of line 411
          /\ xaiConfigured /\ xaiClient[p] = NoClient
          /\ Raise(p, "ClientError")
          /\ UNCHANGED xaiClient
       \/ /\ \E answer \in {XaiText(r) : r \in XaiResponses} \cup {None} :
                \* lines 366-367: not configured, None;
                \* lines 411-420: the chat answers, or raises and None is returned
                /\ xaiConfigured \/ answer = None
                /\ summary' = [summary EXCEPT ![p] =
                      IF answer # None THEN answer
                      ELSE FallbackOf[entries[p][entryIdx[p]]]]
          /\ xaiClient' = [xaiClient EXCEPT ![p] = IF xaiConfigured THEN "client" ELSE @]
          /\ pc' = [pc EXCEPT ![p] = "save"]
          /\ UNCHANGED <<feedIdx, entries, entryIdx, cand, isNew, article_text, err,
                         handled>>
    /\ UNCHANGED <<envVars, dbVars>>

\* line 479: save_article
SaveArticle(p) ==
    /\ pc[p] = "save"
    /\ \/ \* the store cannot be reached
          /\ Raise(p, "OperationalError")
          /\ UNCHANGED <<rows, nextId>>
       \/ /\ FingerprintViolation(cand[p].link, cand[p].fp)
          /\ Raise(p, "UniqueViolation")
          /\ UNCHANGED <<rows, nextId>>
       \/ /\ ~FingerprintViolation(cand[p].link, cand[p].fp)
          /\ IF LinkConflict(cand[p].link)
             THEN UNCHANGED <<rows, nextId>>
             ELSE /\ rows' = rows \cup {NewRow(cand[p], summary[p])}
                  /\ nextId' = nextId + 1
          /\ pc' = [pc EXCEPT ![p] = "saved"]
          /\ UNCHANGED <<feedIdx, entries, entryIdx, cand, isNew, article_text,
                         summary, err, handled>>
    /\ UNCHANGED <<envVars, fpIndex, xaiClient>>

\* line 480: "SAVED", and the next entry
Saved(p) ==
    /\ pc[p] = "saved"
    /\ NextEntry(p)
    /\ UNCHANGED <<envVars, dbVars, xaiClient>>

\* a new pass of "while True": the for loop starts over
NewCycle(p) ==
    /\ pc' = [pc EXCEPT ![p] = "parse"]
    /\ feedIdx' = [feedIdx EXCEPT ![p] = 1]
    /\ err' = [err EXCEPT ![p] = NoError]
    /\ UNCHANGED <<envVars, dbVars, entries, entryIdx, cand, isNew, article_text,
                   summary, xaiClient, handled>>

\* lines 509-510: "Cycle complete", sleep(POLL_SECONDS)
CycleSleep(p) ==
    /\ pc[p] = "sleep"
    /\ NewCycle(p)

\* lines 515-516: "Error in main loop", sleep(60)
ErrorSleep(p) ==
    /\ pc[p] = "error_sleep"
    /\ NewCycle(p)

InTry == {"parse", "no_entries", "entry", "check", "already_seen", "fetch_text", "xai",
          "save", "saved", "sleep"}

\* lines 511-513: KeyboardInterrupt in the try: "Stopped by user", break;
\* in the handler's sleep(60) it leaves main uncaught. Either way the process ends.
KeyboardInterrupt(p) ==
    /\ pc[p] \in InTry \cup {"error_sleep"}
    /\ pc' = [pc EXCEPT ![p] = IF pc[p] \in InTry THEN "stopped" ELSE "killed"]
    /\ ClearFeed(p)
    /\ xaiClient' = [xaiClient EXCEPT ![p] = NoClient]
    /\ err' = [err EXCEPT ![p] = NoError]
    /\ UNCHANGED <<envVars, dbVars, feedIdx, handled>>

(* ---------------------------- specifications ---------------------------- *)
\* app.py, line 23: _cache = {} when the module is loaded
EmptyCache == [k \in {} |-> <<>>]

\* the app has answered no request
InitApp ==
    /\ now = 0
    /\ cache = EmptyCache

InitProcs(ps) ==
    /\ pc = [p \in ps |-> "startup"]
    /\ feedIdx = [p \in ps |-> 1]
    /\ entries = [p \in ps |-> <<>>]
    /\ entryIdx = [p \in ps |-> 1]
    /\ cand = [p \in ps |-> NoCandidate]
    /\ isNew = [p \in ps |-> <<>>]
    /\ article_text = [p \in ps |-> None]
    /\ summary = [p \in ps |-> None]
    /\ xaiClient = [p \in ps |-> NoClient]
    /\ err = [p \in ps |-> NoError]
    /\ handled = {}

InitStore ==
    /\ backend \in {"sqlite", "postgres"}
    /\ rows = {}
    /\ nextId = 1
    /\ fpIndex = FALSE

\* one collector, an empty store
Init ==
    /\ InitStore
    /\ xaiConfigured \in BOOLEAN
    /\ served = "FeedContents"
    /\ call = NoCall
    /\ InitApp
    /\ InitProcs({1})

\* two collectors on one store
InitConcurrent ==
    /\ InitStore
    /\ xaiConfigured = TRUE
    /\ served = "RacingFeedContents"
    /\ call = NoCall
    /\ InitApp
    /\ InitProcs({1, 2})

\* one collector, feeds of one entry
InitFair ==
    /\ InitStore
    /\ xaiConfigured \in BOOLEAN
    /\ served = "SmallFeedContents"
    /\ call = NoCall
    /\ InitApp
    /\ InitProcs({1})

\* one collector, feeds of one entry that differ in the keys they match
InitTopics ==
    /\ InitStore
    /\ xaiConfigured \in BOOLEAN
    /\ served = "TopicFeedContents"
    /\ call = NoCall
    /\ InitApp
    /\ InitProcs({1})

\* one collector, feeds of one entry, some without a title or a link
InitBlank ==
    /\ InitStore
    /\ xaiConfigured \in BOOLEAN
    /\ served = "BlankFeedContents"
    /\ call = NoCall
    /\ InitApp
    /\ InitProcs({1})

\* rows that were in the table before the collector starts: the story of
\* EntryTrump stored twice under other links (two collectors raced, or the rows are
\* older than the unique index), and a row from before the fingerprint column
LegacyRows ==
    { [id |-> 1, title |-> EntryTrump.title, link |-> <<"x">>, description |-> <<>>,
       topic |-> TOPICS[2], summary |-> None, added_at |-> <<1>>,
       fingerprint |-> make_fingerprint(EntryTrump.title, TOPICS[2])],
      [id |-> 2, title |-> EntryTrump.title, link |-> <<"y">>, description |-> <<>>,
       topic |-> TOPICS[2], summary |-> None, added_at |-> <<2>>,
       fingerprint |-> make_fingerprint(EntryTrump.title, TOPICS[2])],
      [id |-> 3, title |-> EntryFbi.title, link |-> <<"z">>, description |-> <<>>,
       topic |-> TOPICS[10], summary |-> None, added_at |-> <<3>>,
       fingerprint |-> None],
      \* the story of rows 1 and 2 again: without fingerprint and without added_at
      [id |-> 4, title |-> EntryTrump.title, link |-> <<"v">>, description |-> <<>>,
       topic |-> TOPICS[2], summary |-> None, added_at |-> <<>>,
       fingerprint |-> None],
      \* and once more, stored at the time of row 2
      [id |-> 5, title |-> EntryTrump.title, link |-> <<"w">>, description |-> <<>>,
       topic |-> TOPICS[2], summary |-> None, added_at |-> <<2>>,
       fingerprint |-> make_fingerprint(EntryTrump.title, TOPICS[2])] }

\* one collector that starts on a table with rows
InitLegacy ==
    /\ backend \in {"sqlite", "postgres"}
    /\ rows \in SUBSET LegacyRows
    /\ nextId = Cardinality(LegacyRows) + 1
    /\ fpIndex = FALSE
    /\ xaiConfigured = FALSE
    /\ served = "SmallFeedContents"
    /\ call = NoCall
    /\ InitApp
    /\ InitProcs({1})

\* the steps a collector takes by itself
CollectorStep(p) ==
    \/ Startup(p)
    \/ NoEntries(p)
    \/ BeginEntry(p)
    \/ IsNewArticle(p)
    \/ AlreadySeen(p)
    \/ FetchArticleText(p)
    \/ XaiSummary(p)
    \/ SaveArticle(p)
    \/ Saved(p)
    \/ CycleSleep(p)
    \/ ErrorSleep(p)

\* one collector
Next ==
    \E p \in {1} :
        \/ CollectorStep(p)
        \/ ParseReturns(p)
        \/ KeyboardInterrupt(p)

\* two collectors
NextConcurrent ==
    \E p \in {1, 2} :
        \/ CollectorStep(p)
        \/ ParseReturns(p)
        \/ KeyboardInterrupt(p)

Spec == Init /\ [][Next]_vars

SpecConcurrent == InitConcurrent /\ [][NextConcurrent]_vars

SpecTopics == InitTopics /\ [][Next]_vars

SpecLegacy == InitLegacy /\ [][Next]_vars
SpecBlank == InitBlank /\ [][Next]_vars

\* "python collector.py" was run again
Restarted == [fn |-> "python collector.py", args |-> <<>>, result |-> <<>>]

\* the collector, stopped or killed, is started again: the module is loaded anew,
\* and lines 256-261 run before main
Restart(p) ==
    /\ pc[p] \in {"stopped", "killed", "crashed"}
    /\ pc' = [pc EXCEPT ![p] = "startup"]
    /\ feedIdx' = [feedIdx EXCEPT ![p] = 1]
    /\ ClearFeed(p)
    /\ xaiClient' = [xaiClient EXCEPT ![p] = NoClient]
    /\ err' = [err EXCEPT ![p] = NoError]
    /\ call' = Restarted
    /\ UNCHANGED <<backend, xaiConfigured, served, dbVars, handled, appVars>>

NextRestart == \E p \in {1} : CollectorStep(p) \/ ParseReturns(p) \/ KeyboardInterrupt(p)
                                   \/ Restart(p)

\* a collector that is stopped and started again, on a table with rows
SpecRestart == InitLegacy /\ [][NextRestart]_vars

\* every call with a timeout returns and a collector that can step does;
\* feedparser.parse has no timeout, and nobody has to press Ctrl-C
Fairness == WF_vars(CollectorStep(1))

FairSpec == InitFair /\ [][Next]_vars /\ Fairness

(* ----------------------- make_fingerprint on its own -------------------- *)
\* the longest title make_fingerprint is called on
MaxTitleLen == 4
\* the longest of the titles with a zero-width character
MaxZeroWidthTitleLen == 3

\* titles of letters in both cases and blanks, and titles with zero-width characters
FingerprintTitles ==
    SeqsUpTo({"a", "A", " "}, MaxTitleLen)
        \cup SeqsUpTo({"a", " ", "ZWSP"}, MaxZeroWidthTitleLen)

\* two keys of TOPICS, one with a blank in it
FingerprintKeys == {TOPICS[1], TOPICS[9]}

\* a pair of titles and a key, make_fingerprint not called yet
InitFingerprint ==
    /\ backend = "sqlite"
    /\ rows = {}
    /\ nextId = 1
    /\ fpIndex = FALSE
    /\ xaiConfigured = FALSE
    /\ served = "SmallFeedContents"
    /\ InitProcs({1})
    /\ \E t1 \in FingerprintTitles, t2 \in FingerprintTitles, k \in FingerprintKeys :
           call = [fn |-> "make_fingerprint", args |-> <<t1, t2, k>>, result |-> <<>>]
    /\ InitApp

\* lines 106-108: make_fingerprint is called on each title with the key
CallMakeFingerprint ==
    /\ call.fn = "make_fingerprint"
    /\ call.result = <<>>
    /\ call' = [call EXCEPT !.result = <<make_fingerprint(call.args[1], call.args[3]),
                                        make_fingerprint(call.args[2], call.args[3])>>]
    /\ UNCHANGED <<backend, xaiConfigured, served, dbVars, pc, feedIdx, entries, entryIdx,
                   cand, isNew, article_text, summary, xaiClient, err, handled, appVars>>

NextFingerprint == CallMakeFingerprint

SpecFingerprint == InitFingerprint /\ [][NextFingerprint]_vars


(* ----------------------- app.py: the read queries ----------------------- *)
\* line 22
CACHE_TTL_SECONDS == 10
\* line 19
PAGE_SIZE_DEFAULT == 12

\* the clock runs from 0 to MaxTime
MaxTime == 12
\* the limits and pages of the requests for a topic: 1..MaxLimit and 0..MaxPage
MaxLimit == 2
MaxPage == 2

\* the topic of a request, in the case the caller wrote it
RequestTopics == { <<"T","r","u","m","p">>, <<"T","R","U","M","P">> }
\* the search of a request: none (None or "") or a term
Searches == { <<>>, <<"u","f","o">> }

collectorVars ==
    <<pc, feedIdx, entries, entryIdx, cand, isNew, article_text, summary, xaiClient,
      err, handled>>

\* lines 158-264: the columns every query selects
Story(r) ==
    [title |-> r.title, link |-> r.link, topic |-> r.topic, summary |-> r.summary,
     added_at |-> r.added_at]

\* ORDER BY added_at DESC (the rows of the model differ in added_at)
RECURSIVE OrderByAddedAtDesc(_)
OrderByAddedAtDesc(S) ==
    IF S = {} THEN <<>>
    ELSE LET newest == CHOOSE r \in S : \A o \in S : o.added_at[1] <= r.added_at[1]
         IN  <<Story(newest)>> \o OrderByAddedAtDesc(S \ {newest})

\* LIMIT limit OFFSET offset
LimitOffset(seq, limit, offset) ==
    [i \in 1..(IF Len(seq) - offset < limit
               THEN (IF Len(seq) - offset < 0 THEN 0 ELSE Len(seq) - offset)
               ELSE limit) |-> seq[offset + i]]

\* get_topic_stories with WHERE topic = %s
TopicQuery_CaseSensitive(topic, limit, offset) ==
    LimitOffset(OrderByAddedAtDesc({r \in rows : r.topic = topic}), limit, offset)

\* lines 216-233: WHERE lower(topic) = lower(%s) ORDER BY added_at DESC LIMIT OFFSET
TopicQuery(topic, limit, offset) ==
    LimitOffset(OrderByAddedAtDesc({r \in rows : Lower(r.topic) = Lower(topic)}),
                limit, offset)

\* x LIKE '%term%' (ILIKE on Postgres): the term is in x, whatever the case of the
\* letters; NULL matches nothing
Like(x, term) == x # None /\ Contains(Lower(x), Lower(term))

\* lines 165-201: the rows, or with a search those with the term in title, topic or
\* summary, ORDER BY added_at DESC LIMIT OFFSET
RecentQuery(search, limit, offset) ==
    LimitOffset(
        OrderByAddedAtDesc({r \in rows :
            search = <<>> \/ Like(r.title, search) \/ Like(r.topic, search)
                \/ Like(r.summary, search)}),
        limit, offset)

\* line 246: SELECT MAX(added_at), NULL on an empty table
MaxAddedAt ==
    IF rows = {} THEN None
    ELSE <<"at", (CHOOSE r \in rows : \A o \in rows : o.added_at[1] <= r.added_at[1])
                     .added_at[1]>>

\* lines 252-261: the time as an ISO string in UTC
IsoOf(val) == <<"iso", val[2]>>

\* fetch_rows without its try/except: the error of the store leaves the function
fetch_rows_NoExcept(ok, answer) ==
    IF ok THEN [raised |-> FALSE, value |-> answer]
    ELSE [raised |-> TRUE, value |-> <<>>]

\* lines 116-134: the rows of the query, or [] when connecting or the query raised
fetch_rows(ok, answer) ==
    IF ok THEN [raised |-> FALSE, value |-> answer]
    ELSE [raised |-> FALSE, value |-> <<>>]

\* lines 137-154: the first column of the first row, or None when there is no row
\* or when connecting or the query raised
fetch_one(ok, answer) ==
    IF ok THEN [raised |-> FALSE, value |-> answer]
    ELSE [raised |-> FALSE, value |-> None]

\* lines 160, 212, 241: the key of a query (kind, text, limit, page, backend)
cache_key(kind, text, limit, page) ==
    <<kind, text, limit, page, IF using_postgres THEN "pg" ELSE "sqlite">>

\* _cache_get that never looks at the expiry
_cache_get_NoExpiry(key) ==
    IF key \notin DOMAIN cache
    THEN [found |-> FALSE, val |-> None, cache |-> cache]
    ELSE [found |-> TRUE, val |-> cache[key].val, cache |-> cache]

\* lines 101-109: the value under the key, and the cache after the call: no item,
\* None; an item past its expiry, it is popped and None; else its value
_cache_get(key) ==
    IF key \notin DOMAIN cache
    THEN [found |-> FALSE, val |-> None, cache |-> cache]
    ELSE IF now > cache[key].exp
    THEN [found |-> FALSE, val |-> None,
          cache |-> [k \in DOMAIN cache \ {key} |-> cache[k]]]
    ELSE [found |-> TRUE, val |-> cache[key].val, cache |-> cache]

\* lines 112-113: the cache c after _cache_set(key, val)
_cache_set(c, key, val) ==
    [k \in DOMAIN c \cup {key} |->
        IF k = key
        THEN [exp |-> now + CACHE_TTL_SECONDS, val |-> val]
        ELSE c[k]]

\* history, kept with the entry of the key: the time at which its value came back
\* from fetch_rows or fetch_one, and whether the store had answered
Noted(c, key, ok) ==
    [c EXCEPT ![key] = [exp |-> @.exp, val |-> @.val, read_at |-> now, read_ok |-> ok]]

\* the result of a call: what it returned or that it raised, whether the store
\* raised when the value was asked for, whether the value is the cache's, when
\* the value was asked for, and the time of the return
Result(raised, value, store_raised, from_cache, read_at) ==
    [done |-> TRUE, raised |-> raised, value |-> value, store_raised |-> store_raised,
     from_cache |-> from_cache, read_at |-> read_at, at |-> now]

\* the query was not called yet
NoResult ==
    [done |-> FALSE, raised |-> FALSE, value |-> <<>>, store_raised |-> FALSE,
     from_cache |-> FALSE, read_at |-> 0, at |-> 0]

ListQuery_FailureNotCached(fn, args, key, answer) ==
    LET got == _cache_get(key)
    IN  /\ IF got.found
           THEN /\ cache' = got.cache
                /\ call' = [fn |-> fn, args |-> args,
                            result |-> Result(FALSE, got.val, ~cache[key].read_ok,
                                              TRUE, cache[key].read_at)]
           ELSE \E ok \in BOOLEAN :
                   LET f == fetch_rows(ok, answer)
                   IN  /\ cache' = IF f.raised \/ ~ok THEN got.cache
                                   ELSE Noted(_cache_set(got.cache, key, f.value),
                                              key, ok)
                       /\ call' = [fn |-> fn, args |-> args,
                                   result |-> Result(f.raised, f.value, ~ok, FALSE, now)]
        /\ UNCHANGED <<backend, xaiConfigured, served, dbVars, now, collectorVars>>

\* a query that returns lists: the cached list, or the rows fetch_rows returns,
\* which are put in the cache
ListQuery(fn, args, key, answer) ==
    LET got == _cache_get(key)
    IN  /\ IF got.found
           THEN /\ cache' = got.cache
                /\ call' = [fn |-> fn, args |-> args,
                            result |-> Result(FALSE, got.val, ~cache[key].read_ok,
                                              TRUE, cache[key].read_at)]
           ELSE \E ok \in BOOLEAN :
                   LET f == fetch_rows(ok, answer)
                   IN  /\ cache' = IF f.raised THEN got.cache
                                   ELSE Noted(_cache_set(got.cache, key, f.value),
                                              key, ok)
                       /\ call' = [fn |-> fn, args |-> args,
                                   result |-> Result(f.raised, f.value, ~ok, FALSE, now)]
        /\ UNCHANGED <<backend, xaiConfigured, served, dbVars, now, collectorVars>>

\* lines 158-204
get_recent_stories(limit, search, page) ==
    ListQuery("get_recent_stories", <<limit, search, page>>,
              cache_key("recent", search, limit, page),
              RecentQuery(search, limit, (IF page - 1 > 0 THEN page - 1 ELSE 0) * limit))

\* lines 207-237
get_topic_stories(topic, limit, page) ==
    ListQuery("get_topic_stories", <<topic, limit, page>>,
              cache_key("topic", Lower(topic), limit, page),
              TopicQuery(topic, limit, (IF page - 1 > 0 THEN page - 1 ELSE 0) * limit))

\* lines 240-264: a cached None counts as no cached value
get_latest_update_iso ==
    LET key == cache_key("latest_update", <<>>, 0, 0)
        got == _cache_get(key)
    IN  /\ IF got.found /\ got.val # None
           THEN /\ cache' = got.cache
                /\ call' = [fn |-> "get_latest_update_iso", args |-> <<>>,
                            result |-> Result(FALSE, got.val, ~cache[key].read_ok,
                                              TRUE, cache[key].read_at)]
           ELSE \E ok \in BOOLEAN :
                   LET f == fetch_one(ok, MaxAddedAt)
                       iso == IF f.value = None THEN None ELSE IsoOf(f.value)
                   IN  /\ cache' = IF f.raised THEN got.cache
                                   ELSE Noted(_cache_set(got.cache, key, iso), key, ok)
                       /\ call' = [fn |-> "get_latest_update_iso", args |-> <<>>,
                                   result |-> Result(f.raised, iso, ~ok, FALSE, now)]
        /\ UNCHANGED <<backend, xaiConfigured, served, dbVars, now, collectorVars>>

\* a second of time.time() passes
Tick ==
    /\ now < MaxTime
    /\ now' = now + 1
    /\ UNCHANGED <<backend, xaiConfigured, served, dbVars, call, cache, collectorVars>>

\* collector.py, lines 433-480, as the app sees them: a collector, in a process of
\* its own without XAI_API_KEY, handles an entry that is new and stores its row
CollectorSaves(e) ==
    /\ ~Skipped(CandidateOf[e])
    /\ is_new_article(CandidateOf[e].link, CandidateOf[e].fp)
    /\ rows' = rows \cup {NewRow(CandidateOf[e],
                    IF Eligible(CandidateOf[e]) THEN FallbackOf[e] ELSE None)}
    /\ nextId' = nextId + 1
    /\ UNCHANGED <<envVars, fpIndex, collectorVars>>

\* the app and a collector on one store, the index in place on Postgres
InitRead ==
    /\ InitStore
    /\ xaiConfigured = FALSE
    /\ served = "SmallFeedContents"
    /\ call = NoCall
    /\ InitApp
    /\ InitProcs({1})

\* every read query, with the page size of the site, while a collector stores rows
NextRead ==
    \/ \E s \in Searches : get_recent_stories(PAGE_SIZE_DEFAULT, s, 1)
    \/ \E t \in RequestTopics : get_topic_stories(t, PAGE_SIZE_DEFAULT, 1)
    \/ get_latest_update_iso
    \/ \E e \in ReadUniverse : CollectorSaves(e)

SpecRead == InitRead /\ [][NextRead]_vars

\* the app serves one page of a topic, asked for again and again
InitTopicRead ==
    /\ InitStore
    /\ xaiConfigured = FALSE
    /\ served = "SmallFeedContents"
    /\ \E t \in RequestTopics, limit \in 1..MaxLimit, page \in 0..MaxPage :
           call = [fn |-> "get_topic_stories", args |-> <<t, limit, page>>,
                   result |-> NoResult]
    /\ InitApp
    /\ InitProcs({1})

\* lines 336 and 708: the page is asked for
CallGetTopicStories ==
    /\ call.fn = "get_topic_stories"
    /\ get_topic_stories(call.args[1], call.args[2], call.args[3])

\* a page of a topic, while a collector stores rows
NextTopicRead ==
    \/ CallGetTopicStories
    \/ \E e \in ReadUniverse : CollectorSaves(e)

SpecTopicRead == InitTopicRead /\ [][NextTopicRead]_vars

\* the first page of the site over time, while a collector stores rows
NextCache ==
    \/ get_recent_stories(PAGE_SIZE_DEFAULT, <<>>, 1)
    \/ Tick
    \/ \E e \in ReadUniverse : CollectorSaves(e)

SpecCache == InitRead /\ [][NextCache]_vars

(* ------------------------------ properties ------------------------------ *)
\* a stored row has the fingerprint of the entry the collector p is handling,
\* under another link
SameStoryOtherLink(p) ==
    /\ cand[p] # NoCandidate
    /\ \E r \in rows : r.fingerprint = cand[p].fp /\ r.link # cand[p].link

\* the pc values of a collector that has not ended
Running == InTry \cup {"startup", "error_sleep"}

\* C1: with one collector and a store that was empty at the start, no two rows of
\* the store have the same fingerprint, whatever the feeds serve and however often.
C1_UniqueFingerprint ==
    \A r1, r2 \in rows : r1.fingerprint = r2.fingerprint => r1 = r2

\* the same story was handled under two links and the store holds it
C1_Witness ==
    /\ {EntryTrump, EntryTrumpAgain} \subseteq handled
    /\ CandidateOf[EntryTrump].link # CandidateOf[EntryTrumpAgain].link
    /\ \E r \in rows : r.fingerprint = CandidateOf[EntryTrumpAgain].fp

\* C2: when two collectors race on one fingerprint, at most one row with it is
\* stored and the loser sees "already present", never an error; on both backends.
C2_RaceStoresOneRow ==
    /\ \A r1, r2 \in rows : r1 # r2 => r1.fingerprint # r2.fingerprint
    /\ \A p \in Collectors : err[p] # "UniqueViolation"

\* C3: while a collector handles a candidate whose fingerprint is stored under
\* another link, no step adds or changes a row, the candidate goes neither to
\* enrichment nor to the insert, and one row with that fingerprint remains.
C3_DedupAcrossLinkChange ==
    [][\A p \in Collectors :
          (pc[p] \in {"check", "already_seen"} /\ SameStoryOtherLink(p))
              => /\ rows' = rows
                 /\ pc'[p] \notin {"fetch_text", "xai", "save", "saved"}
                 /\ Cardinality({r \in rows' : r.fingerprint = cand[p].fp}) = 1]_vars

\* the dedup check has answered "seen" for a story stored under another link
C3_Witness == pc[1] = "already_seen" /\ SameStoryOtherLink(1)

\* C4: enrichment (fetch_article_text, xai_summary) runs only for a candidate for
\* which is_new_article has returned true; a duplicate gets no enrichment at all.
C4_DedupBeforeEnrichment ==
    \A p \in Collectors :
        /\ pc[p] \in {"fetch_text", "xai"} => isNew[p] = <<TRUE>>
        /\ isNew[p] = <<FALSE>> =>
              pc[p] = "already_seen" /\ article_text[p] = None /\ summary[p] = None

\* a new candidate of an eligible topic is in xai_summary, its page text fetched
C4_Witness == pc[1] = "xai" /\ isNew[1] = <<TRUE>> /\ article_text[1] = ArticleText

\* C5: an entry that a poll has handled to its end is a no-op whenever a later
\* poll serves it again: no row is added or changed and no enrichment is called.
\* So a cycle run again over the same entries leaves the store as it was.
C5_IdempotentCycle ==
    [][\A p \in Collectors :
          (/\ pc[p] \in {"entry", "check", "already_seen"}
           /\ entryIdx[p] <= Len(entries[p])
           /\ entries[p][entryIdx[p]] \in handled)
              => /\ rows' = rows
                 /\ pc'[p] \notin {"fetch_text", "xai", "save", "saved"}]_vars

\* an entry stored by an earlier poll is served again and found already seen
C5_Witness ==
    /\ pc[1] = "already_seen"
    /\ entries[1][entryIdx[1]] \in handled
    /\ \E r \in rows : r.link = cand[1].link /\ r.fingerprint = cand[1].fp

\* C6: whatever fails in the summarizer, a new candidate of an eligible topic
\* goes on from xai_summary to save_article, with a summary.
C6_EnrichmentNeverBlocksPersistence ==
    [][\A p \in Collectors :
          (pc[p] = "xai" /\ pc'[p] \notin {"xai", "stopped"})
              => pc'[p] = "save" /\ summary'[p] # None]_vars

\* C7: an error in one feed does not end the cycle: when main's handler is
\* reached, no feed of FEEDS was left out.
C7_FeedFailureIsolated ==
    \A p \in Collectors : pc[p] = "error_sleep" => feedIdx[p] = NumFeeds

\* C8: the main loop is left by KeyboardInterrupt only, and after an exception
\* of a cycle a new cycle starts (unless the collector is stopped first).
C8_MainLoopSurvives ==
    /\ [][(pc[1] \in Running /\ pc'[1] \notin Running) => KeyboardInterrupt(1)]_vars
    /\ (pc[1] = "error_sleep")
           ~> ((pc[1] = "parse" /\ feedIdx[1] = 1) \/ pc[1] \in {"stopped", "killed"})

\* main's handler has caught an exception of the cycle
C8_Witness == pc[1] = "error_sleep" /\ err[1] = "ClientError"

\* C9: an insert that meets a row with its link or its fingerprint changes
\* nothing and raises nothing: the collector goes on to the next entry.
C9_InsertConflictIsNoOp ==
    [][\A p \in Collectors :
          (/\ pc[p] = "save" /\ pc'[p] \notin {"save", "stopped"}
           /\ \E r \in rows : r.link = cand[p].link \/ r.fingerprint = cand[p].fp
           /\ err'[p] # "OperationalError")
              => rows' = rows /\ pc'[p] = "saved"]_vars

\* C10: a feed fetch that gets no response fails in the end: the collector does
\* not stay in feedparser.parse forever.
C10_FeedFetchTimesOut == (pc[1] = "parse") ~> (pc[1] # "parse")

\* C11: every stored row has a key of TOPICS as its topic, and that key is in
\* its normalized title or in its normalized description: a candidate that
\* matches no key is never stored.
C11_OnlyMatchedStored ==
    \A r \in rows :
        \E i \in 1..Len(TOPICS) :
            /\ r.topic = TOPICS[i]
            /\ \/ Contains(normalize_text(r.title), Lower(TOPICS[i]))
               \/ Contains(normalize_text(r.description), Lower(TOPICS[i]))

\* an entry without any key was handled to its end, and the store has rows, none for it
C11_Witness ==
    /\ EntryCat \in handled
    /\ CandidateOf[EntryCat].matched_topic = None
    /\ rows # {}
    /\ \A r \in rows : r.title # CandidateOf[EntryCat].title

\* C12: the topic of a stored row is the first key, in the order of TOPICS, that
\* is in its normalized title or description: no key that matches comes before it.
C12_FirstKeyInTopicsOrder ==
    \A r \in rows :
        LET norm_title == normalize_text(r.title)
            norm_desc == normalize_text(r.description)
        IN  \A i \in 1..Len(TOPICS) :
                (\/ Contains(norm_title, Lower(TOPICS[i]))
                 \/ Contains(norm_desc, Lower(TOPICS[i])))
                    => \E j \in 1..i : r.topic = TOPICS[j]

\* a title with the keys "ufo" and "lawsuit" is stored under "lawsuit"
C12_Witness ==
    \E r \in rows :
        /\ r.title = EntryUfo.title
        /\ Contains(normalize_text(r.title), <<"u","f","o">>)
        /\ Contains(normalize_text(r.title), <<"l","a","w","s","u","i","t">>)
        /\ r.topic = <<"l","a","w","s","u","i","t">>

\* C13: the topic of every stored row is the display label of its key
\* ("FBI" for "fbi", "Trump" for "trump"), never the key itself.
C13_TopicIsCanonicalLabel ==
    \A r \in rows : r.topic = normalize_topic_label(r.topic)

\* C14: two candidates whose titles are equal up to case and whitespace get one
\* fingerprint, whatever their links and descriptions: the store never has two
\* rows whose titles are equal up to case and whitespace.
C14_SameTitleOneRow ==
    \A r1, r2 \in rows :
        CollapseWhitespace(Lower(Strip(r1.title))) = CollapseWhitespace(Lower(Strip(r2.title)))
            => r1.fingerprint = r2.fingerprint /\ r1 = r2

\* C15: make_fingerprint depends on its arguments only and not on the case of
\* the title nor on the blanks around and the runs of blanks in it: two titles
\* that are equal after lowercasing, trimming and collapsing their runs of
\* whitespace get, with one key, the same fingerprint.
C15_FingerprintIgnoresCaseAndSpacing ==
    (call.fn = "make_fingerprint" /\ call.result # <<>>) =>
        /\ call.result[1] = make_fingerprint(call.args[1], call.args[3])
        /\ CollapseWhitespace(Strip(Lower(call.args[1])))
                = CollapseWhitespace(Strip(Lower(call.args[2])))
              => call.result[1] = call.result[2]

\* make_fingerprint was called on two titles that differ in case and in spacing only
C15_Witness ==
    /\ call.fn = "make_fingerprint" /\ call.result # <<>>
    /\ call.args[1] = <<"a", " ", " ", "A">>
    /\ call.args[2] = <<" ", "A", " ", "a">>
    /\ call.result[1] = call.result[2]

\* C16: the page fetch and the summarizer run only for a candidate whose key is
\* in AI_SUMMARY_TOPICS, a strict subset of TOPICS; a stored row of such a key
\* has a summary that is not empty, a stored row of any other key has none.
C16_EnrichmentOnlyForEligibleTopics ==
    /\ \A i \in 1..Len(AI_SUMMARY_TOPICS) : \E j \in 1..Len(TOPICS) : AI_SUMMARY_TOPICS[i] = TOPICS[j]
    /\ \E j \in 1..Len(TOPICS) : \A i \in 1..Len(AI_SUMMARY_TOPICS) : AI_SUMMARY_TOPICS[i] # TOPICS[j]
    /\ \A p \in Collectors :
          pc[p] \in {"fetch_text", "xai"} => Lower(cand[p].matched_topic) \in ai_topics_lower
    /\ \A r \in rows :
          IF Lower(r.topic) \in ai_topics_lower
          THEN r.summary # None /\ r.summary # <<>>
          ELSE r.summary = None

\* the store has a row of the key "fbi" without summary and a row of the key
\* "trump" with one
C16_Witness ==
    /\ \E r \in rows : r.topic = <<"f","b","i">> /\ r.summary = None
    /\ \E r \in rows : r.topic = <<"t","r","u","m","p">> /\ r.summary # None

\* C17: neither fetch_article_text nor xai_summary raises, whatever fails in
\* them (the page fetch, the creation of the client, the chat): the collector
\* goes on, and what xai_summary leaves as summary is never an empty text.
C17_EnrichmentNeverThrows ==
    [][\A p \in Collectors :
          pc[p] \in {"fetch_text", "xai"}
              => /\ err'[p] = NoError
                 /\ pc'[p] # MainExcept
                 /\ summary'[p] # <<>>]_vars

\* C18: no stored summary has an HTML tag in it: line-break markup of the
\* summarizer's answer is stored as a newline and any other tag is removed.
C18_StoredSummaryHasNoTag ==
    \A r \in rows :
        r.summary # None => ~\E i \in 1..Len(r.summary) : TagAt(r.summary, i)

\* C19: the collector only adds rows: no step of it, its startup included,
\* deletes a stored row or changes its title, link, topic or added_at, or a
\* fingerprint that was set.
C19_StoreIsAppendOnly ==
    [][\A r \in rows :
          \E kept \in rows' :
              /\ kept.id = r.id
              /\ kept.title = r.title /\ kept.link = r.link /\ kept.topic = r.topic
              /\ kept.added_at = r.added_at
              /\ r.fingerprint # None => kept.fingerprint = r.fingerprint]_vars

\* the row r holds every field of the candidate of the entry e, with the summary
\* process_feed can have for it
WholeRowOf(r, e) ==
    /\ r.title = CandidateOf[e].title
    /\ r.link = CandidateOf[e].link
    /\ r.description = CandidateOf[e].desc
    /\ r.topic = CandidateOf[e].matched_topic
    /\ r.fingerprint = CandidateOf[e].fp
    /\ r.added_at # <<>>
    /\ \/ r.summary = None
       \/ r.summary = FallbackOf[e]
       \/ \E x \in XaiResponses : r.summary = XaiText(x)

\* C20: stopping the collector at any point of a cycle leaves no entry half
\* stored: every row holds all the fields of one candidate, the stop itself
\* writes nothing and drops the entries of the feed that are left, and a
\* stopped collector takes no further step.
C20_StopLeavesWholeRows ==
    [][/\ \A r \in rows' : \E e \in Universe : WholeRowOf(r, e)
       /\ \A p \in Collectors :
             /\ (pc[p] \in InTry /\ pc'[p] = "stopped")
                   => rows' = rows /\ entries'[p] = <<>> /\ cand'[p] = NoCandidate
             /\ pc[p] \in {"stopped", "killed"} => pc'[p] = pc[p] /\ rows' = rows]_vars

\* the collector is stopped; the store has the rows stored before the stop, and an
\* entry of the feeds was not handled to its end and has no row
C20_Witness ==
    /\ pc[1] = "stopped"
    /\ rows # {}
    /\ \E e \in Universe : e \notin handled /\ \A r \in rows : r.link # CandidateOf[e].link

\* C21: an entry whose title or link is empty after trimming (or missing) is passed
\* over at the head of the loop: no collector is past the head of the loop with
\* such an entry, and every stored row has a non-empty title and a non-empty link.
C21_NoBlankTitleOrLink ==
    /\ \A r \in rows : r.title # <<>> /\ r.link # <<>>
    /\ \A p \in Collectors :
          pc[p] \in {"check", "already_seen", "fetch_text", "xai", "save", "saved"}
              => cand[p].title # <<>> /\ cand[p].link # <<>>

\* an entry with a blank title and one with a blank link, each with a key of TOPICS,
\* were handled to their end, and the store has a row
C21_Witness ==
    /\ {EntryNoTitle, EntryNoLink} \subseteq handled
    /\ CandidateOf[EntryNoTitle].title = <<>>
    /\ CandidateOf[EntryNoTitle].matched_topic # None
    /\ CandidateOf[EntryNoLink].link = <<>>
    /\ CandidateOf[EntryNoLink].matched_topic # None
    /\ rows # {}

\* C22: a single collector that starts on an empty store takes, on either backend,
\* the steps of one store whose description names no backend: dedupe_and_lock
\* leaves the rows alone, is_new_article answers that no row has the link and no
\* row has the fingerprint, and save_article either fails to reach the store or
\* returns, having added the row of the candidate (title, link, topic, summary,
\* fingerprint) unless a row had its link; no step raises an error that only one
\* backend has. So the answers and the rows are the same on SQLite and Postgres.
C22_BackendsInterchangeable ==
    [][\A p \in Collectors :
          /\ pc[p] = "startup" => rows' = rows
          /\ (pc[p] = "check" /\ isNew'[p] # <<>>) =>
                isNew'[p] = << \A r \in rows : r.link # cand[p].link
                                                /\ r.fingerprint # cand[p].fp >>
          /\ pc[p] = "save" =>
                /\ err'[p] \in {NoError, "OperationalError"}
                /\ err'[p] = "OperationalError" => rows' = rows
                /\ pc'[p] = "saved" =>
                      IF \E r \in rows : r.link = cand[p].link
                      THEN rows' = rows
                      ELSE \E r \in rows' :
                              /\ rows' = rows \cup {r}
                              /\ r \notin rows
                              /\ r.title = cand[p].title
                              /\ r.link = cand[p].link
                              /\ r.topic = cand[p].matched_topic
                              /\ r.summary = summary[p]
                              /\ r.fingerprint = cand[p].fp
          /\ pc[p] \notin {"startup", "save"} => rows' = rows]_vars

\* on Postgres, with the unique index in place, the collector has stored two rows
\* and has just been told that a third candidate was seen before
C22_Witness ==
    /\ backend = "postgres"
    /\ fpIndex
    /\ Cardinality(rows) >= 2
    /\ pc[1] = "already_seen"
    /\ isNew[1] = <<FALSE>>

\* the read queries of app.py
ReadQueries == {"get_recent_stories", "get_topic_stories", "get_latest_update_iso"}

\* C23: when the store raises during a read query (connecting or executing), the
\* error does not reach the caller: get_recent_stories and get_topic_stories
\* return the empty list and get_latest_update_iso returns None.
C23_ReadFailureYieldsEmpty ==
    (call.fn \in ReadQueries /\ call.result.store_raised) =>
        /\ ~call.result.raised
        /\ call.result.value = IF call.fn = "get_latest_update_iso" THEN None ELSE <<>>

\* the store raised during a query for a topic that has a row in the store
C23_Witness ==
    /\ call.fn = "get_topic_stories"
    /\ call.result.store_raised
    /\ \E r \in rows : Lower(r.topic) = Lower(call.args[1])

\* the stored rows, as a query returns them, whose topic is the topic but for the
\* case of its letters
Matching(topic) == {Story(r) : r \in {x \in rows : Lower(x.topic) = Lower(topic)}}

\* value is the page of the topic in the store as it is now: the rows of Matching
\* from the newest down, without the first max(page-1, 0)*limit, limit at most
IsTopicWindow(value, topic, limit, page) ==
    LET M == Matching(topic)
        offset == (IF page > 1 THEN page - 1 ELSE 0) * limit
        rest == IF Cardinality(M) > offset THEN Cardinality(M) - offset ELSE 0
    IN  /\ Len(value) = (IF rest < limit THEN rest ELSE limit)
        /\ \A i \in 1..Len(value) :
              /\ value[i] \in M
              /\ Cardinality({o \in M : o.added_at[1] > value[i].added_at[1]})
                     = offset + i - 1

\* C24, as amended: when get_topic_stories(topic, limit, page) finds no live entry
\* in the cache and the store answers, it returns exactly the rows whose stored
\* topic equals the requested topic ignoring letter case, newest first, limit rows
\* at most from offset max(page-1, 0)*limit on (so page 0 gives what page 1 gives).
C24_TopicPageOnStoreRead ==
    [][(/\ rows' = rows
        /\ call'.fn = "get_topic_stories"
        /\ ~call'.result.from_cache
        /\ ~call'.result.store_raised)
          => IsTopicWindow(call'.result.value,
                           call'.args[1], call'.args[2], call'.args[3])]_vars

\* C24, as stated: whenever get_topic_stories returns and the store did not raise,
\* its value is the page of the topic in the store as it is at the return.
C24_ReturnsCurrentWindow ==
    [][(/\ rows' = rows
        /\ call'.fn = "get_topic_stories"
        /\ ~call'.result.store_raised)
          => IsTopicWindow(call'.result.value,
                           call'.args[1], call'.args[2], call'.args[3])]_vars

\* page 2 of "TRUMP" with one row a page was read from the store, which holds two
\* rows under "trump" and one under another topic: the older of the two came back
C24_Witness ==
    /\ call.fn = "get_topic_stories"
    /\ call.args = << <<"T","R","U","M","P">>, 1, 2 >>
    /\ call.result.done
    /\ ~call.result.from_cache
    /\ ~call.result.store_raised
    /\ Cardinality(Matching(call.args[1])) = 2
    /\ \E r \in rows : Lower(r.topic) # Lower(call.args[1])
    /\ Len(call.result.value) = 1
    /\ IsTopicWindow(call.result.value, call.args[1], 1, 2)
    /\ \E o \in Matching(call.args[1]) :
          o.added_at[1] > call.result.value[1].added_at[1]

\* C25: a read query that returns a value from the cache returns one that
\* fetch_rows gave at most CACHE_TTL_SECONDS before the return; and a call that
\* finds an entry past its expiry does not return it: the entry is dropped, and
\* what the cache holds under the key afterwards was read in this call.
C25_StalenessBoundedByTtl ==
    /\ [](call.fn = "get_recent_stories" /\ call.result.from_cache
            => call.result.at - call.result.read_at <= CACHE_TTL_SECONDS)
    /\ [][(/\ rows' = rows
            /\ now' = now
            /\ call'.fn = "get_recent_stories"
            /\ cache_key("recent", call'.args[2], call'.args[1], call'.args[3])
                   \in DOMAIN cache
            /\ now > cache[cache_key("recent", call'.args[2], call'.args[1],
                                     call'.args[3])].exp)
              => /\ ~call'.result.from_cache
                 /\ call'.result.read_at = now
                 /\ cache'[cache_key("recent", call'.args[2], call'.args[1],
                                     call'.args[3])].read_at = now]_vars

\* the first page came from the cache exactly CACHE_TTL_SECONDS after it was read,
\* without a row that was stored in between
C25_Witness ==
    /\ call.fn = "get_recent_stories"
    /\ call.result.from_cache
    /\ call.result.at - call.result.read_at = CACHE_TTL_SECONDS
    /\ \E r \in rows : \A i \in 1..Len(call.result.value) :
          call.result.value[i].link # r.link


\* C26: the fingerprint alone decides: when is_new_article has answered for a
\* candidate, the collector goes on to store it exactly when no stored row has its
\* fingerprint, whether or not a stored row has its link.
C26_FingerprintAloneDecides ==
    [][\A p \in Collectors :
          (pc[p] = "check" /\ pc'[p] \in {"already_seen", "fetch_text", "save"})
              => (pc'[p] # "already_seen"
                    <=> \A r \in rows : r.fingerprint # cand[p].fp)]_vars

\* C27: no two rows of the store have the same link, whatever the feeds serve,
\* with two collectors at work on the store as well.
C27_UniqueLink ==
    \A r1, r2 \in rows : r1.link = r2.link => r1 = r2

\* two collectors were both told that their candidate is new, the candidates have
\* one link and different fingerprints, both have returned from save_article, and
\* the store has one row with the link
C27_Witness ==
    /\ pc[1] = "saved" /\ pc[2] = "saved"
    /\ isNew[1] = <<TRUE>> /\ isNew[2] = <<TRUE>>
    /\ cand[1].link = cand[2].link
    /\ cand[1].fp # cand[2].fp
    /\ Cardinality({r \in rows : r.link = cand[1].link}) = 1

\* C28: the fingerprint dedupe_and_lock writes into a row whose fingerprint was
\* NULL is make_fingerprint(title, topic) of the row, on both backends.
C28_BackfillIsMakeFingerprint ==
    [][\A p \in Collectors :
          pc[p] = "startup" =>
              \A r \in rows, r2 \in rows' :
                  (r.fingerprint = None /\ r2.id = r.id /\ r2.fingerprint # None)
                      => r2.fingerprint = make_fingerprint(r.title, r.topic)]_vars

\* the fingerprint of a row after the UPDATE of dedupe_and_lock on Postgres
FingerprintAfterBackfill(r) ==
    IF r.fingerprint = None THEN pg_backfill_fingerprint(r.title, r.topic)
    ELSE r.fingerprint

\* k comes no later than r in ORDER BY added_at DESC NULLS LAST, id DESC
NoOlderThan(k, r) ==
    \/ k.id = r.id
    \/ k.added_at # <<>> /\ r.added_at = <<>>
    \/ k.added_at # <<>> /\ r.added_at # <<>> /\ k.added_at[1] > r.added_at[1]
    \/ k.added_at = r.added_at /\ k.id > r.id

\* C29: on Postgres, once dedupe_and_lock has completed, no two rows share a
\* fingerprint and no row has a NULL fingerprint, then and ever after; and the run
\* of dedupe_and_lock keeps, of the rows that have one fingerprint after the
\* backfill, the newest (greatest added_at, NULL last, then greatest id), with
\* that fingerprint, and nothing else.
C29_DedupeKeepsNewest ==
    /\ []((using_postgres /\ fpIndex) =>
            /\ \A r1, r2 \in rows : r1.fingerprint = r2.fingerprint => r1 = r2
            /\ \A r \in rows : r.fingerprint # None)
    /\ [][\A p \in Collectors :
            (pc[p] = "startup" /\ using_postgres /\ fpIndex') =>
                /\ \A r \in rows : \E k \in rows :
                      /\ FingerprintAfterBackfill(k) = FingerprintAfterBackfill(r)
                      /\ NoOlderThan(k, r)
                      /\ [k EXCEPT !.fingerprint = FingerprintAfterBackfill(k)] \in rows'
                /\ \A k2 \in rows' : \E r \in rows :
                      k2 = [r EXCEPT !.fingerprint = FingerprintAfterBackfill(r)]]_vars

\* on Postgres dedupe_and_lock has completed: the row without fingerprint of
\* another story has one, and of the story stored four times (one row without
\* fingerprint and added_at, two rows of one added_at) the row of the greatest id
\* among those of the greatest added_at is the only one in the store
C29_Witness ==
    /\ using_postgres
    /\ fpIndex
    /\ pc[1] = "parse"
    /\ \E r \in rows : r.id = 3 /\ r.fingerprint # None
    /\ {r.id : r \in {x \in rows : x.title = EntryTrump.title}} = {5}

\* C30: when the collector is started again on a store on which dedupe_and_lock
\* has completed before (on Postgres: the index exists), dedupe_and_lock changes
\* nothing: every row stays, with its fingerprint, and no error comes of it (the
\* collector goes on to its first poll without one).
C30_SecondRunChangesNothing ==
    [][\A p \in Collectors :
          (pc[p] = "startup" /\ call = Restarted /\ (using_postgres => fpIndex)) =>
              /\ rows' = rows
              /\ fpIndex' = fpIndex
              /\ pc'[p] = "parse"
              /\ err'[p] = NoError]_vars

\* on Postgres the collector was started again and is past dedupe_and_lock; the
\* store holds the row the first run kept of the story stored four times and a row
\* stored since
C30_Witness ==
    /\ call = Restarted
    /\ pc[1] = "parse"
    /\ using_postgres
    /\ fpIndex
    /\ \E r \in rows : r.id = 5
    /\ \E r \in rows : r.id > Cardinality(LegacyRows)
    /\ \A r \in rows : r.title = EntryTrump.title => r.id = 5

\* C31: on Postgres a failure of dedupe_and_lock at startup (no index is created)
\* does not end the collector, which goes on to poll; and once every collector
\* is past its startup without the index, no two stored rows have one fingerprint.
C31_FailedDedupeKeepsUniqueness ==
    /\ [][\A p \in Collectors :
            (pc[p] = "startup" /\ pc'[p] # "startup" /\ using_postgres /\ ~fpIndex')
                => pc'[p] = "parse" /\ err'[p] = NoError]_vars
    /\ []((using_postgres /\ ~fpIndex /\ \A p \in Collectors : pc[p] # "startup")
            => \A r1, r2 \in rows : r1.fingerprint = r2.fingerprint => r1 = r2)


(***************************************************************************)
(* fallback_summary on its own (src/collector.py, lines 286-305): the      *)
(* snippets are as long as the two lengths the function compares with,     *)
(* one character less and one more.                                        *)
(***************************************************************************)
\* how far the snippet lengths go around MinSnippetLen and MaxSentenceLen
SnippetSlack == 1

\* the snippets: n characters (n around the two lengths, or 0) plain, followed by
\* a second sentence, inside a tag, ending in an entity, and with a blank as the
\* last but one character
FallbackDescs ==
    LET Fill(n) == [i \in 1..n |-> "x"]
        SnippetLens ==
            {0} \cup ((MinSnippetLen - SnippetSlack)..(MinSnippetLen + SnippetSlack))
                \cup ((MaxSentenceLen - SnippetSlack)..(MaxSentenceLen + SnippetSlack))
    IN  UNION { { Fill(n),
                  Fill(n) \o <<".", " ", "T", "a", "i", "l", ".">>,
                  <<"<", "p", ">">> \o Fill(n) \o <<"<", "/", "p", ">">>,
                  Fill(n) \o <<"&", "a", "m", "p", ";">>,
                  Fill(n) \o <<" ", "y">> } : n \in SnippetLens }

InitFallback ==
    /\ backend = "sqlite"
    /\ rows = {}
    /\ nextId = 1
    /\ fpIndex = FALSE
    /\ xaiConfigured = FALSE
    /\ served = "SmallFeedContents"
    /\ InitProcs({1})
    /\ \E title \in { <<"T", "r", "u", "m", "p", " ", "w", "i", "n", "s">>,
                      <<" ", "<", "b", ">", "T", "r", "u", "m", "p", "<", "/", "b", ">", " ">> },
          desc \in FallbackDescs,
          topic \in { <<"t", "r", "u", "m", "p">>, <<"e", "l", "e", "c", "t", "i", "o", "n">> } :
           call = [fn |-> "fallback_summary", args |-> <<title, desc, topic>>, result |-> <<>>]
    /\ InitApp

\* lines 286-305: fallback_summary is called; result is <<the text>>
CallFallbackSummary ==
    /\ call.fn = "fallback_summary"
    /\ call.result = <<>>
    /\ call' = [call EXCEPT !.result =
                   <<fallback_summary(call.args[1], call.args[2], call.args[3])>>]
    /\ UNCHANGED <<backend, xaiConfigured, served, dbVars, pc, feedIdx, entries, entryIdx,
                   cand, isNew, article_text, summary, xaiClient, err, handled, appVars>>

SpecFallback == InitFallback /\ [][CallFallbackSummary]_vars

\* C32: fallback_summary never returns the empty text; when the cleaned description
\* has at least 80 characters the result is the description's first sentence, cut to
\* at most 220 characters, then a blank line and the note Key: Topic=<topic>;
\* otherwise it is the thin-snippet text with the cleaned headline and the same note.
C32_FallbackSummaryShape ==
    (call.fn = "fallback_summary" /\ call.result # <<>>) =>
        LET title_clean == clean_text(call.args[1])
            desc_clean == clean_text(call.args[2])
            topic == call.args[3]
            text == call.result[1]
            first == FirstSentence(desc_clean)
            sentence == SubSeq(text, 1, Len(text) - Len(topic) - 3)
        IN  /\ text # <<>>
            /\ Len(desc_clean) >= 80 =>
                   /\ text = sentence \o <<"\n", "\n", "Key: Topic=">> \o topic
                   /\ Len(sentence) <= 220
                   /\ sentence # <<>>
                   /\ sentence = Strip(sentence)
                   /\ IF Len(first) <= 220 THEN sentence = first
                      ELSE sentence = Strip(SubSeq(first, 1, 220))
            /\ Len(desc_clean) < 80 =>
                   text = <<"This headline matches '">> \o topic
                              \o <<"', but the feed snippet is thin.", "\n", "Headline: ">>
                              \o title_clean \o <<"\n", "Key: Topic=">> \o topic

\* a description whose first sentence is longer than 220 characters was summarised
C32_Witness ==
    /\ call.fn = "fallback_summary"
    /\ call.result # <<>>
    /\ Len(FirstSentence(clean_text(call.args[2]))) > 220

(***************************************************************************)
(* app.py: the summary shown (src/app.py, lines 54-73)                     *)
(***************************************************************************)
\* the index after the run of whitespace that starts at i
RECURSIVE SkipWhitespace(_, _)
SkipWhitespace(s, i) ==
    IF i <= Len(s) /\ s[i] \in Whitespace THEN SkipWhitespace(s, i + 1) ELSE i

\* (?i)<br\s*/?\s*> matched at i: the index of its ">", or 0 when it does not match there
BrTagEnd(s, i) ==
    IF i + 3 <= Len(s) /\ s[i] = "<" /\ LowerChar(s[i + 1]) = "b" /\ LowerChar(s[i + 2]) = "r"
    THEN LET j == SkipWhitespace(s, i + 3)
             k == IF j <= Len(s) /\ s[j] = "/" THEN SkipWhitespace(s, j + 1) ELSE j
         IN  IF k <= Len(s) /\ s[k] = ">" THEN k ELSE 0
    ELSE 0

\* re.sub(r"(?i)<br\s*/?\s*>", "\n", s): leftmost, non-overlapping, one pass
RECURSIVE SubBrTags(_)
SubBrTags(s) ==
    IF \A i \in 1..Len(s) : BrTagEnd(s, i) = 0 THEN s
    ELSE LET i == CHOOSE k \in 1..Len(s) :
                      BrTagEnd(s, k) # 0 /\ \A m \in 1..(k - 1) : BrTagEnd(s, m) = 0
         IN  SubSeq(s, 1, i - 1) \o <<"\n">> \o SubBrTags(SubSeq(s, BrTagEnd(s, i) + 1, Len(s)))

\* line 65: &lt;br&gt;, &lt;br/&gt; and &lt;br /&gt;, in the order they are replaced
EscapedBr ==
    << <<"&", "l", "t", ";", "b", "r", "&", "g", "t", ";">>,
       <<"&", "l", "t", ";", "b", "r", "/", "&", "g", "t", ";">>,
       <<"&", "l", "t", ";", "b", "r", " ", "/", "&", "g", "t", ";">> >>

normalize_summary_for_display(text) ==
    IF text = <<>> THEN <<>>
    ELSE LET t1 == ReplaceAll(ReplaceAll(ReplaceAll(text, EscapedBr[1], <<"\n">>),
                                         EscapedBr[2], <<"\n">>),
                              EscapedBr[3], <<"\n">>)
             t2 == SubBrTags(t1)
             t3 == ReplaceAll(ReplaceAll(t2, <<"\r", "\n">>, <<"\n">>), <<"\r">>, <<"\n">>)
         IN  Strip(t3)

\* the pieces the summaries are made of, and how many of them
MaxPieces == 3

\* the summaries of at most n pieces
RECURSIVE SummariesOf(_)
SummariesOf(n) ==
    IF n = 0 THEN {<<>>}
    ELSE LET shorter == SummariesOf(n - 1)
             pieces ==
                 { <<"<", "b", "r">>, <<">">>, <<"<", "b", "r", ">">>,
                   <<"<", "B", "R", " ", "/", ">">>,
                   EscapedBr[1], EscapedBr[2], EscapedBr[3],
                   <<"&", "l", "t", ";", "B", "R", "&", "g", "t", ";">>,
                   <<"\r", "\n">>, <<"a">>, <<" ">> }
         IN  shorter \cup { s \o p : s \in shorter, p \in pieces }

InitSummary ==
    /\ backend = "sqlite"
    /\ rows = {}
    /\ nextId = 1
    /\ fpIndex = FALSE
    /\ xaiConfigured = FALSE
    /\ served = "SmallFeedContents"
    /\ InitProcs({1})
    /\ \E text \in SummariesOf(MaxPieces) :
           call = [fn |-> "normalize_summary_for_display", args |-> <<text>>, result |-> <<>>]
    /\ InitApp

\* lines 54-73: the function is called on a summary, then on its own result
CallNormalizeSummary ==
    /\ call.fn = "normalize_summary_for_display"
    /\ Len(call.result) < 2
    /\ call' = [call EXCEPT !.result =
                   IF call.result = <<>>
                   THEN <<normalize_summary_for_display(call.args[1])>>
                   ELSE Append(call.result, normalize_summary_for_display(call.result[1]))]
    /\ UNCHANGED <<backend, xaiConfigured, served, dbVars, pc, feedIdx, entries, entryIdx,
                   cand, isNew, article_text, summary, xaiClient, err, handled, appVars>>

SpecSummary == InitSummary /\ [][CallNormalizeSummary]_vars

\* C33: the result of normalize_summary_for_display holds no <br> tag (any case,
\* optional whitespace and slash) and none of the escaped forms &lt;br&gt;,
\* &lt;br/&gt;, &lt;br /&gt;, and the function applied to its result returns it unchanged.
C33_NoBrLeftAndIdempotent ==
    /\ (call.fn = "normalize_summary_for_display" /\ Len(call.result) >= 1) =>
           /\ \A i \in 1..Len(call.result[1]) : BrTagEnd(call.result[1], i) = 0
           /\ \A k \in 1..Len(EscapedBr) : ~Contains(call.result[1], EscapedBr[k])
    /\ (call.fn = "normalize_summary_for_display" /\ Len(call.result) = 2) =>
           call.result[2] = call.result[1]

(***************************************************************************)
(* The matcher on its own (src/collector.py, lines 442-450): for each key  *)
(* of TOPICS, candidates that hold the key and no other word.              *)
(***************************************************************************)
InitMatch ==
    /\ backend = "sqlite"
    /\ rows = {}
    /\ nextId = 1
    /\ fpIndex = FALSE
    /\ xaiConfigured = FALSE
    /\ served = "SmallFeedContents"
    /\ InitProcs({1})
    /\ \E i \in 1..Len(TOPICS) :
           \* <<title, desc>> of the candidates written around the key
           \E c \in { <<TOPICS[i], <<>>>>,
                      <<<<>>, TOPICS[i]>>,
                      <<<<"x", " ">> \o TOPICS[i] \o <<" ", "x">>, <<>>>>,
                      <<Title(TOPICS[i]) \o <<"!">>, <<"x">>>> } :
               call = [fn |-> "match_topic", args |-> <<TOPICS[i], c[1], c[2]>>,
                       result |-> <<>>]
    /\ InitApp

\* lines 442-450: norm_title, norm_desc and the loop over TOPICS; result is <<matched_topic>>
CallMatchTopic ==
    /\ call.fn = "match_topic"
    /\ call.result = <<>>
    /\ call' = [call EXCEPT !.result =
                   <<MatchTopic(normalize_text(call.args[2]), normalize_text(call.args[3]))>>]
    /\ UNCHANGED <<backend, xaiConfigured, served, dbVars, pc, feedIdx, entries, entryIdx,
                   cand, isNew, article_text, summary, xaiClient, err, handled, appVars>>

SpecMatch == InitMatch /\ [][CallMatchTopic]_vars

\* C34: every key of TOPICS is the matched topic of some candidate: a candidate that
\* holds the key and no other word of the vocabulary is matched to that key (any
\* candidate matched to the key holds it, and a key that comes earlier and is part
\* of it is in every such candidate).
C34_EveryKeyReachable ==
    (call.fn = "match_topic" /\ call.result # <<>>) => call.result[1] = call.args[1]


(***************************************************************************)
(* app.py: the topics the pages list (src/app.py, lines 267-298, 703-709)  *)
(***************************************************************************)
get_all_topics ==
    << <<"B","i","t","c","o","i","n">>,
       <<"C","h","i","n","a">>,
       <<"C","o","n","s","p","i","r","a","c","y">>,
       <<"C","o","r","r","u","p","t","i","o","n">>,
       <<"C","o","u","r","t">>,
       <<"E","l","e","c","t","i","o","n">>,
       <<"E","x","e","c","u","t","i","v","e"," ","O","r","d","e","r">>,
       <<"F","B","I">>,
       <<"I","r","a","n">>,
       <<"I","s","r","a","e","l">>,
       <<"L","a","w","s","u","i","t">>,
       <<"N","u","c","l","e","a","r">>,
       <<"P","u","t","i","n">>,
       <<"R","u","s","s","i","a">>,
       <<"S","a","u","d","i">>,
       <<"T","r","u","m","p">>,
       <<"V","o","t","e","r">>,
       <<"I","n","j","u","n","c","t","i","o","n">>,
       <<"R","I","C","O">>,
       <<"C","o","n","s","p","i","r","a","c","y"," ","T","h","e","o","r","y">>,
       <<"Q","A","n","o","n">>,
       <<"U","F","O">>,
       <<"M","A","H","A">>,
       <<"N","e","t","a","n","y","a","h","u">>,
       <<"E","r","d","o","g","a","n">>,
       <<"L","a","v","r","o","v">>,
       <<"B","o","a","r","d"," ","o","f"," ","P","e","a","c","e">>,
       <<"C","o","n","g","o">>,
       <<"S","a","h","e","l">> >>

InitListing ==
    /\ backend = "sqlite"
    /\ rows = {}
    /\ nextId = 1
    /\ fpIndex = FALSE
    /\ xaiConfigured = FALSE
    /\ served = "SmallFeedContents"
    /\ InitProcs({1})
    /\ \/ \E i \in 1..Len(TOPICS) :
              call = [fn |-> "normalize_topic_label", args |-> <<TOPICS[i]>>, result |-> <<>>]
       \/ \E j \in 1..Len(get_all_topics) :
              call = [fn |-> "topic_page", args |-> <<get_all_topics[j]>>, result |-> <<>>]
    /\ InitApp

\* lines 42-51: the label of a stored topic; result is <<label>>
CallTopicLabel ==
    /\ call.fn = "normalize_topic_label"
    /\ call.result = <<>>
    /\ call' = [call EXCEPT !.result = <<normalize_topic_label(call.args[1])>>]
    /\ UNCHANGED <<backend, xaiConfigured, served, dbVars, pc, feedIdx, entries, entryIdx,
                   cand, isNew, article_text, summary, xaiClient, err, handled, appVars>>

\* lines 703-709: the page of a listed label; result is <<the keys whose stories it
\* shows>>: get_topic_stories compares lower(topic) with the lowercased label
CallTopicPage ==
    /\ call.fn = "topic_page"
    /\ call.result = <<>>
    /\ call' = [call EXCEPT !.result =
                   <<{ i \in 1..Len(TOPICS) : Lower(TOPICS[i]) = Lower(call.args[1]) }>>]
    /\ UNCHANGED <<backend, xaiConfigured, served, dbVars, pc, feedIdx, entries, entryIdx,
                   cand, isNew, article_text, summary, xaiClient, err, handled, appVars>>

SpecListing == InitListing /\ [][CallTopicLabel \/ CallTopicPage]_vars

\* C35: the label normalize_topic_label gives to a key of TOPICS is one of the labels
\* of get_all_topics, and every label of get_all_topics is, ignoring case, a key of TOPICS.
C35_EveryTopicListed ==
    /\ (call.fn = "normalize_topic_label" /\ call.result # <<>>) =>
           \E j \in 1..Len(get_all_topics) : get_all_topics[j] = call.result[1]
    /\ (call.fn = "topic_page" /\ call.result # <<>>) => call.result[1] # {}


\* the app serves one query, asked for again and again
InitFailedRead ==
    /\ InitStore
    /\ xaiConfigured = FALSE
    /\ served = "SmallFeedContents"
    /\ \/ call = [fn |-> "get_recent_stories", args |-> <<PAGE_SIZE_DEFAULT, <<>>, 1>>,
                  result |-> NoResult]
       \/ \E t \in RequestTopics :
              call = [fn |-> "get_topic_stories", args |-> <<t, PAGE_SIZE_DEFAULT, 1>>,
                      result |-> NoResult]
       \/ call = [fn |-> "get_latest_update_iso", args |-> <<>>, result |-> NoResult]
    /\ InitApp
    /\ InitProcs({1})

\* lines 682-683 and 707-708: the query of the page is asked for
CallSameQuery ==
    \/ /\ call.fn = "get_recent_stories"
       /\ get_recent_stories(call.args[1], call.args[2], call.args[3])
    \/ CallGetTopicStories
    \/ /\ call.fn = "get_latest_update_iso"
       /\ get_latest_update_iso

\* one query over time, with reads that fail, while a collector stores rows
SpecFailedRead ==
    InitFailedRead /\ [][CallSameQuery \/ Tick \/ \E e \in ReadUniverse : CollectorSaves(e)]_vars

\* C36: when get_recent_stories or get_topic_stories returned [] because the store
\* raised, the same call made again within CACHE_TTL_SECONDS of that read returns
\* the [] of the cache and does not ask the store; a None of get_latest_update_iso
\* never comes from the cache: with no rows in the store each call asks the store.
C36_FailureCachedNoneNot ==
    /\ [][( /\ call.fn \in {"get_recent_stories", "get_topic_stories"}
            /\ call.result.store_raised
            /\ call'.fn = call.fn
            /\ call'.args = call.args
            /\ call' # call
            /\ now <= call.result.read_at + CACHE_TTL_SECONDS )
              => ( /\ call'.result.from_cache
                   /\ call'.result.value = <<>>
                   /\ call'.result.read_at = call.result.read_at
                   /\ cache' = cache )]_vars
    /\ [][( call'.fn = "get_latest_update_iso" /\ call' # call )
              => ( /\ call'.result.value = None => ~call'.result.from_cache
                   /\ rows = {} => (call'.result.value = None /\ ~call'.result.from_cache) )]_vars

\* a failed read is served from the cache ten seconds later, with a row in the store
C36_Witness ==
    /\ call.fn = "get_recent_stories"
    /\ call.result.store_raised
    /\ call.result.from_cache
    /\ call.result.value = <<>>
    /\ call.result.at = call.result.read_at + CACHE_TTL_SECONDS
    /\ rows # {}
=============================================================================
